---------------------------- MODULE Spec2Model ----------------------------
(***************************************************************************)
(* A model of scripts/pipeline.py (the resumable photogrammetry driver)    *)
(* and of scripts/compress.py (the archiver).                              *)
(*                                                                         *)
(* File names are sequences of code points, so that sorted(), lower(),     *)
(* endswith(), splitext() and glob() are computed as Python computes them. *)
(* The external tools (ffmpeg, exiftool, the reconstruction engine, 7z)    *)
(* are modelled at their interface: each call is a step that can succeed,  *)
(* fail, or be cut short by the death of the process.                      *)
(***************************************************************************)
EXTENDS Integers, Sequences, FiniteSets, TLC

(***************************************************************************)
(* Bounds of the model.                                                    *)
(***************************************************************************)
\* frames a video decodes to at the requested frame rate (at least one)
FramesPerVideo == 2
\* environment events in one behaviour: kills, tool failures, abnormal
\* engine outcomes, a user disabling a partition
MaxFaults == 1
\* faces the engine builds per aligned camera of a partition
FacesPerCamera == 7
\* volumes 7z writes for one archive
MaxVolumes == 2
\* source files present in the exports directory when the archiver starts
MaxSrcFiles == 1

(***************************************************************************)
(* Strings.                                                                *)
(***************************************************************************)
\* str.lower() on a sequence of code points
Lower(s) == [i \in DOMAIN s |-> IF s[i] \in 65..90 THEN s[i] + 32 ELSE s[i]]

\* str.endswith(suf)
EndsWith(s, suf) ==
    /\ Len(s) >= Len(suf)
    /\ SubSeq(s, Len(s) - Len(suf) + 1, Len(s)) = suf

\* str.startswith(pre)
StartsWith(s, pre) ==
    /\ Len(s) >= Len(pre)
    /\ SubSeq(s, 1, Len(pre)) = pre

\* the order of str: lexicographic on code points
StrLess(s, t) ==
    \E k \in 1..(Len(s) + 1) :
        /\ k <= Len(t)
        /\ \A j \in 1..(k - 1) : s[j] = t[j]
        /\ (k = Len(s) + 1 \/ s[k] < t[k])

\* sorted(S) for a set of strings: at position r is the string with r - 1
\* strings of S before it
SortedStrings(S) ==
    [r \in 1..Cardinality(S) |->
        CHOOSE x \in S : Cardinality({ y \in S : StrLess(y, x) }) = r - 1]

\* os.path.splitext(name)[0]: the name up to its last dot, unless that dot
\* is a leading one
SplitextBase(name) ==
    LET dots == {i \in DOMAIN name : name[i] = 46}
        last == CHOOSE i \in dots : \A j \in dots : j <= i
    IN  IF dots = {} THEN name
        ELSE IF \A j \in 1..(last - 1) : name[j] = 46 THEN name
        ELSE SubSeq(name, 1, last - 1)

\* "%04d" % n
Fmt04d(n) ==
    << 48 + ((n \div 1000) % 10), 48 + ((n \div 100) % 10),
       48 + ((n \div 10) % 10), 48 + (n % 10) >>

\* ".jpg"
JpgExt == << 46, 106, 112, 103 >>

\* the accepted video extensions ('.mp4', '.mov', '.360')
VideoExts == { << 46, 109, 112, 52 >>, << 46, 109, 111, 118 >>, << 46, 51, 54, 48 >> }

\* filename.lower().endswith(('.mp4', '.mov', '.360'))
IsVideo(filename) ==
    \E lower \in { Lower(filename) } : \E e \in VideoExts : EndsWith(lower, e)

\* the n-th frame file ffmpeg writes for output pattern f"{base}_%04d.jpg"
FrameName(base, n) == base \o << 95 >> \o Fmt04d(n) \o JpgExt

\* glob(f"{base}_*.jpg") against one file name of the frames directory
\* (base free of glob metacharacters)
GlobMatches(base, fname) ==
    /\ StartsWith(fname, base \o << 95 >>)
    /\ EndsWith(fname, JpgExt)
    /\ Len(fname) >= Len(base) + 1 + Len(JpgExt)

(***************************************************************************)
(* The input directories the model draws from.                             *)
(***************************************************************************)
\* "a.mov", "a.mp4": two videos with one base name
DirSameBase == { << 97, 46, 109, 111, 118 >>, << 97, 46, 109, 112, 52 >> }
\* "a.mp4", "a_1.mp4", "n.txt": one base a prefix of the other, and a
\* file that is no video
DirPrefix == { << 97, 46, 109, 112, 52 >>, << 97, 95, 49, 46, 109, 112, 52 >>,
               << 110, 46, 116, 120, 116 >> }
\* "b.MOV", "c.360", "d.mp4", "e.mp4", "f.mp4"
DirFive == { << 98, 46, 77, 79, 86 >>, << 99, 46, 51, 54, 48 >>,
             << 100, 46, 109, 112, 52 >>, << 101, 46, 109, 112, 52 >>,
             << 102, 46, 109, 112, 52 >> }
\* "n.txt": no video at all
DirNoVideo == { << 110, 46, 116, 120, 116 >> }

VideoDirs == { DirSameBase, DirPrefix, DirFive, DirNoVideo }


(***************************************************************************)
(* State.                                                                  *)
(***************************************************************************)
VARIABLES
    \* --- the disk ---
    videos,      \* the file names in the input directory (args.videos)
    frames,      \* frames directory: base name -> n, files base_0001..base_n
    tagged,      \* the frame files <<base, n>> whose UsePanoramaViewer is True
    proj,        \* the .psx file: [exists, chunks]
    glb,         \* the tier labels whose .glb is in exports/glb_exports
    \* --- the pipeline process ---
    pc,          \* where the process is; "idle" when none runs
    doc,         \* the Metashape.Document in memory: [chunks]
    i,           \* the running loop's index (video, file, chunk, tier)
    k,           \* frames written by the running ffmpeg / split loop's i
    toMerge,     \* chunks_to_merge, as indices into doc.chunks
    all_files,   \* all_files of inject_360_metadata, as <<base, n>>
    \* --- history, for the properties ---
    ops,         \* the external operations invoked in the current run
    skips,       \* the stages the current run logged as skipped
    lastCall,    \* the last engine operation invoked and on what
    unsaved,     \* the stage whose successful operation is not yet saved
    prevOK,      \* the previous run completed every stage, nothing happened since
    extractOK,   \* extract_frames has returned normally at least once
    splitsSaved, \* how many times a split has been saved to the .psx file
    killedIn,    \* what the last killed run was doing: [op, unit]
    tierRes,     \* the current run's result per tier label
    decoded,     \* the video files ever passed to ffmpeg
    failedIn,    \* the call that raised in the current run: [op, unit]
    faults,      \* environment events so far
    \* --- the archiver process (compress.py) ---
    arch,        \* archive directory: files <<label, part>>, part 0 the base
    srcFiles,    \* the files <<quality, kind>> present in the exports directory
    apc,         \* where the archiver is
    ai,          \* index of the label the archiver is at
    nvol,        \* volumes the running 7z has written
    calls7z,     \* how many times 7z has been invoked per label
    askips       \* the labels the archiver's current run has skipped

diskVars == << videos, frames, tagged, proj, glb >>
procVars == << pc, doc, i, k, toMerge, all_files >>
histVars == << ops, skips, lastCall, unsaved, prevOK, extractOK, splitsSaved,
               killedIn, tierRes, decoded, failedIn, faults >>
archVars == << arch, srcFiles, apc, ai, nvol, calls7z, askips >>
vars == << diskVars, procVars, histVars, archVars >>

\* CHUNK_COUNT
CHUNK_COUNT == 8
\* batch_size of inject_360_metadata
BATCH_SIZE == 200

NoCall == [op |-> "none", label |-> "", enabled |-> TRUE, ncams |-> 0,
           faces |-> 0, target |-> 0]
NoKill == [op |-> "none", unit |-> 0]
NoFail == [op |-> "none", unit |-> 0]
TierLabels == { "full", "medium", "low" }

\* the sorted listing of the input directory
Listing == SortedStrings(videos)
\* the base names of the videos of the input directory
Bases == { SplitextBase(v) : v \in { w \in videos : IsVideo(w) } }
\* the frame files on disk, as <<base, n>>
FrameFiles == UNION { { << b, n >> : n \in 1..frames[b] } : b \in DOMAIN frames }
\* FramesExist changed to look for a frame numbered 0000, which ffmpeg
\* (numbering from 1) never writes
FramesExistZeroth(base) ==
    { f \in FrameFiles : FrameName(f[1], f[2]) = FrameName(base, 0) } # {}

\* glob(output_path.replace('%04d', '*')) is not empty
FramesExist(base) ==
    { << b, f >> \in {base} \X FrameFiles : GlobMatches(b, FrameName(f[1], f[2])) } # {}

(***************************************************************************)
(* Init: nothing has run; the input directory is one of VideoDirs, the     *)
(* project directory is empty.                                             *)
(***************************************************************************)
InitPipeline ==
    /\ videos \in VideoDirs
    /\ frames = [b \in Bases |-> 0]
    /\ tagged = {}
    /\ proj = [exists |-> FALSE, chunks |-> << >>]
    /\ glb = {}
    /\ pc = "idle"
    /\ doc = [chunks |-> << >>]
    /\ i = 0
    /\ k = 0
    /\ toMerge = {}
    /\ all_files = << >>
    /\ ops = {}
    /\ skips = {}
    /\ lastCall = NoCall
    /\ unsaved = "none"
    /\ prevOK = FALSE
    /\ extractOK = FALSE
    /\ splitsSaved = 0
    /\ killedIn = NoKill
    /\ tierRes = [t \in TierLabels |-> "none"]
    /\ decoded = {}
    /\ failedIn = NoFail
    /\ faults = 0

(***************************************************************************)
(* The run: the entry point starts extract_frames; a process that ends     *)
(* (normally, by an uncaught exception, or killed) loses doc.              *)
(***************************************************************************)
StartRun ==
    /\ pc = "idle"
    /\ pc' = "extract"
    /\ i' = 1
    /\ k' = 0
    /\ doc' = [chunks |-> << >>]
    /\ toMerge' = {}
    /\ all_files' = << >>
    /\ ops' = {}
    /\ skips' = {}
    /\ lastCall' = NoCall
    /\ unsaved' = "none"
    /\ tierRes' = [t \in TierLabels |-> "none"]
    /\ failedIn' = NoFail
    /\ UNCHANGED << diskVars, prevOK, extractOK, splitsSaved, decoded, killedIn, faults >>
    /\ UNCHANGED archVars

\* what the end of the process leaves: doc is gone, the disk stays; kinfo
\* says what a killed process was doing
Exit(kinfo) ==
    /\ pc' = "idle"
    /\ doc' = [chunks |-> << >>]
    /\ toMerge' = {}
    /\ all_files' = << >>
    /\ i' = 0
    /\ k' = 0
    /\ prevOK' = FALSE
    /\ killedIn' = kinfo
    /\ UNCHANGED << ops, skips, lastCall, unsaved, extractOK, splitsSaved, decoded >>

\* Abort changed so that the exception is caught at the entry point, which
\* goes on with run_photogrammetry_pipeline
AbortSwallowed ==
    /\ failedIn' = [op |-> pc, unit |-> IF pc = "copy" THEN k ELSE i]
    /\ pc' = "open"
    /\ UNCHANGED << doc, toMerge, all_files, i, k, prevOK, killedIn >>
    /\ UNCHANGED << ops, skips, lastCall, unsaved, extractOK, splitsSaved, decoded >>

\* an uncaught exception: the traceback names the call that raised
Abort ==
    /\ Exit(NoKill)
    /\ failedIn' = [op |-> pc, unit |-> IF pc = "copy" THEN k ELSE i]

CanFault == faults < MaxFaults

(***************************************************************************)
(* extract_frames                                                          *)
(***************************************************************************)
\* line 31: the file is no video, the loop goes on
ExtractIgnore ==
    /\ pc = "extract"
    /\ i <= Len(Listing)
    /\ \E filename \in { Listing[i] } : ~IsVideo(filename)
    /\ i' = i + 1
    /\ UNCHANGED << diskVars, pc, doc, k, toMerge, all_files, histVars, archVars >>

\* lines 35, 43-44: frames exist for the base, the video is skipped
ExtractSkip ==
    /\ pc = "extract"
    /\ i <= Len(Listing)
    /\ \E filename \in { Listing[i] } :
          /\ IsVideo(filename)
          /\ FramesExist(SplitextBase(filename))
    /\ i' = i + 1
    /\ skips' = skips \cup {"extract"}
    /\ UNCHANGED killedIn
    /\ UNCHANGED << diskVars, pc, doc, k, toMerge, all_files, archVars >>
    /\ UNCHANGED << ops, lastCall, unsaved, prevOK, extractOK, splitsSaved, decoded, failedIn,
                    tierRes, faults >>

\* lines 35-42: no frame matches, ffmpeg is started
ExtractInvoke ==
    /\ pc = "extract"
    /\ i <= Len(Listing)
    /\ \E filename \in { Listing[i] } :
          /\ IsVideo(filename)
          /\ ~FramesExist(SplitextBase(filename))
    /\ pc' = "ffmpeg"
    /\ k' = 0
    /\ ops' = ops \cup {"ffmpeg"}
    /\ decoded' = decoded \cup { Listing[i] }
    /\ UNCHANGED killedIn
    /\ UNCHANGED << diskVars, doc, i, toMerge, all_files, archVars >>
    /\ UNCHANGED << skips, lastCall, unsaved, prevOK, extractOK, splitsSaved, failedIn,
                    tierRes, faults >>

\* ffmpeg writes the next frame file base_%04d.jpg
FfmpegWrite ==
    /\ pc = "ffmpeg"
    /\ k < FramesPerVideo
    /\ LET base == SplitextBase(Listing[i])
       IN  frames' = [frames EXCEPT ![base] = IF @ < k + 1 THEN k + 1 ELSE @]
    /\ k' = k + 1
    /\ UNCHANGED << videos, tagged, proj, glb, pc, doc, i, toMerge, all_files, archVars >>
    /\ UNCHANGED histVars

\* ffmpeg exits 0 after the last frame
FfmpegExit ==
    /\ pc = "ffmpeg"
    /\ k = FramesPerVideo
    /\ pc' = "extract"
    /\ i' = i + 1
    /\ k' = 0
    /\ UNCHANGED << diskVars, doc, toMerge, all_files, histVars, archVars >>

\* ffmpeg exits non-zero: check=True raises CalledProcessError
FfmpegFail ==
    /\ pc = "ffmpeg"
    /\ CanFault
    /\ Abort
    /\ faults' = faults + 1
    /\ UNCHANGED << diskVars, archVars, tierRes >>

\* the loop of line 30 is over: extract_frames returns
ExtractReturn ==
    /\ pc = "extract"
    /\ i > Len(Listing)
    /\ pc' = "tag"
    /\ extractOK' = TRUE
    /\ UNCHANGED << diskVars, doc, i, k, toMerge, all_files, archVars >>
    /\ UNCHANGED << ops, skips, lastCall, unsaved, prevOK, splitsSaved, decoded, failedIn,
                    killedIn, tierRes, faults >>

(***************************************************************************)
(* inject_360_metadata                                                     *)
(***************************************************************************)
\* the number of files of the frames directory fr whose name sorts before
\* that of frame n of base b: with %04d the names of one base ascend with n,
\* the names of the other bases are compared as strings
FilesBefore(fr, b, n) ==
    LET others == UNION { { << c, m >> : m \in 1..fr[c] } : c \in DOMAIN fr \ {b} }
    IN  (n - 1) + Cardinality({ p \in { << FrameName(g[1], g[2]), FrameName(b, n) >> :
                                            g \in others } :
                                  StrLess(p[1], p[2]) })

\* sorted() of the file names of the frames directory fr, as <<base, n>>: at
\* position r is the file with r - 1 files before it
SortedFiles(fr) ==
    LET files == UNION { { << b, n >> : n \in 1..fr[b] } : b \in DOMAIN fr }
        ByRank(ranked) ==
            [r \in 1..Cardinality(ranked) |-> (CHOOSE p \in ranked : p[1] = r - 1)[2]]
    IN  CHOOSE sorted \in { ByRank(ranked) :
                               ranked \in { { << FilesBefore(fr, f[1], f[2]), f >> :
                                                f \in files } } } : TRUE

\* Batch changed to the slice all_files[i:i + batch_size - 1]
BatchShort(files, off) ==
    SubSeq(files, off + 1,
           IF off + BATCH_SIZE - 1 < Len(files) THEN off + BATCH_SIZE - 1 ELSE Len(files))

\* all_files[i:i + batch_size] for the 0-based offset i
Batch(files, off) ==
    SubSeq(files, off + 1,
           IF off + BATCH_SIZE < Len(files) THEN off + BATCH_SIZE ELSE Len(files))

\* lines 49-53: the frames directory holds no .jpg file
TagNoFiles ==
    /\ pc = "tag"
    /\ FrameFiles = {}
    /\ pc' = "open"
    /\ UNCHANGED << diskVars, doc, i, k, toMerge, all_files, histVars, archVars >>

\* lines 49, 55-57: all_files is listed and its last file is probed
TagProbe ==
    /\ pc = "tag"
    /\ FrameFiles # {}
    /\ all_files' = SortedFiles(frames)
    /\ pc' = "probed"
    /\ ops' = ops \cup {"exiftool-probe"}
    /\ UNCHANGED << diskVars, doc, i, k, toMerge, archVars >>
    /\ UNCHANGED << skips, lastCall, unsaved, prevOK, extractOK, splitsSaved, decoded, failedIn,
                    killedIn, tierRes, faults >>

\* lines 62-64: the probe answers "True"
TagSkip ==
    /\ pc = "probed"
    /\ all_files[Len(all_files)] \in tagged
    /\ pc' = "open"
    /\ skips' = skips \cup {"tag"}
    /\ UNCHANGED << diskVars, doc, i, k, toMerge, all_files, archVars >>
    /\ UNCHANGED << ops, lastCall, unsaved, prevOK, extractOK, splitsSaved, decoded, failedIn,
                    killedIn, tierRes, faults >>

\* lines 57-66: the probe answers anything else (the flag is absent, or the
\* probe itself failed and its output is an error text)
TagBegin ==
    /\ pc = "probed"
    /\ \/ /\ all_files[Len(all_files)] \notin tagged
          /\ UNCHANGED faults
       \/ /\ all_files[Len(all_files)] \in tagged
          /\ CanFault
          /\ faults' = faults + 1
    /\ pc' = "tagging"
    /\ i' = 0
    /\ UNCHANGED << diskVars, doc, k, toMerge, all_files, archVars >>
    /\ UNCHANGED << ops, skips, lastCall, unsaved, prevOK, extractOK, splitsSaved, decoded, failedIn,
                    killedIn, tierRes >>

\* lines 67-75: exiftool is started on the next batch
TagBatchInvoke ==
    /\ pc = "tagging"
    /\ i < Len(all_files)
    /\ pc' = "exiftool"
    /\ k' = 0
    /\ ops' = ops \cup {"exiftool"}
    /\ UNCHANGED << diskVars, doc, i, toMerge, all_files, archVars >>
    /\ UNCHANGED << skips, lastCall, unsaved, prevOK, extractOK, splitsSaved, decoded, failedIn,
                    killedIn, tierRes, faults >>

\* ExiftoolNext changed so that the files are taken from the end of the
\* command line
ExiftoolNextBackwards(batch, n) == batch[Len(batch) - n]

\* lines 70-75: exiftool takes the files in the order of its command line;
\* the file it rewrites after n others
ExiftoolNext(batch, n) == batch[n + 1]

\* exiftool rewrites the next file of its batch
ExiftoolWrite ==
    /\ pc = "exiftool"
    /\ k < Len(Batch(all_files, i))
    /\ tagged' = tagged \cup { ExiftoolNext(Batch(all_files, i), k) }
    /\ k' = k + 1
    /\ UNCHANGED << videos, frames, proj, glb, pc, doc, i, toMerge, all_files >>
    /\ UNCHANGED << histVars, archVars >>

\* exiftool exits 0 after the last file of the batch
ExiftoolExit ==
    /\ pc = "exiftool"
    /\ k = Len(Batch(all_files, i))
    /\ pc' = "tagging"
    /\ i' = i + BATCH_SIZE
    /\ k' = 0
    /\ UNCHANGED << diskVars, doc, toMerge, all_files, histVars, archVars >>

\* exiftool exits non-zero: check=True raises
ExiftoolFail ==
    /\ pc = "exiftool"
    /\ CanFault
    /\ Abort
    /\ faults' = faults + 1
    /\ UNCHANGED << diskVars, archVars, tierRes >>

\* the loop of line 67 is over
TagReturn ==
    /\ pc = "tagging"
    /\ i >= Len(all_files)
    /\ pc' = "open"
    /\ UNCHANGED << diskVars, doc, i, k, toMerge, all_files, histVars, archVars >>

(***************************************************************************)
(* run_photogrammetry_pipeline: the session, alignment                     *)
(*                                                                         *)
(* A camera is [label, transform]; its label stands for the stem of its    *)
(* photo's file name, here the photo's position in the sorted image list   *)
(* (the files of one directory have distinct names).  A chunk is           *)
(* [label, cameras, enabled, depth, model, faces, tex].                    *)
(***************************************************************************)
NewChunk(lbl, cams) ==
    [label |-> lbl, cameras |-> cams, enabled |-> TRUE, depth |-> FALSE,
     model |-> FALSE, faces |-> 0, tex |-> FALSE]

\* the engine calls that are in progress while pc names them
EnginePcs == { "matchPhotos", "alignCameras", "copy", "buildDepthMaps",
               "buildModel", "buildUV", "buildTexture", "mergeChunks",
               "decimateModel", "exportModel" }

\* doc.save(): the .psx file takes the document
Saved(d) == [exists |-> TRUE, chunks |-> d.chunks]

\* lines 87-92: open the project file, or create it
OpenProject ==
    /\ pc = "open"
    /\ IF proj.exists
       THEN /\ doc' = [chunks |-> proj.chunks]
            /\ UNCHANGED proj
       ELSE /\ doc' = [chunks |-> << >>]
            /\ proj' = Saved([chunks |-> << >>])
    /\ pc' = "align"
    /\ UNCHANGED << videos, frames, tagged, glb, i, k, toMerge, all_files >>
    /\ UNCHANGED << histVars, archVars >>

\* line 94: the condition under which the alignment block is skipped
AlignComplete(d) == d.chunks # << >>

\* line 94: the document has chunks
AlignSkip ==
    /\ pc = "align"
    /\ AlignComplete(doc)
    /\ pc' = "split"
    /\ skips' = skips \cup {"align"}
    /\ UNCHANGED killedIn
    /\ UNCHANGED << diskVars, doc, i, k, toMerge, all_files, archVars >>
    /\ UNCHANGED << ops, lastCall, unsaved, prevOK, extractOK, splitsSaved, decoded, failedIn,
                    tierRes, faults >>

\* lines 95-102: MainChunk takes the images of the frames directory and
\* matchPhotos is started
AlignBegin ==
    /\ pc = "align"
    /\ ~AlignComplete(doc)
    /\ FrameFiles # {}
    /\ LET images == Cardinality(FrameFiles)
           cams == [n \in 1..images |-> [label |-> n, transform |-> FALSE]]
       IN  doc' = [chunks |-> << NewChunk("MainChunk", cams) >>]
    /\ pc' = "matchPhotos"
    /\ ops' = ops \cup {"matchPhotos"}
    /\ lastCall' = [NoCall EXCEPT !.op = "matchPhotos", !.label = "MainChunk",
                                  !.ncams = Cardinality(FrameFiles)]
    /\ unsaved' = "align"
    /\ UNCHANGED killedIn
    /\ UNCHANGED << diskVars, i, k, toMerge, all_files, archVars >>
    /\ UNCHANGED << skips, prevOK, extractOK, splitsSaved, decoded, failedIn, tierRes, faults >>

\* line 99: with no image the chunk has no sensor, chunk.sensors[0] raises
AlignNoImages ==
    /\ pc = "align"
    /\ ~AlignComplete(doc)
    /\ FrameFiles = {}
    /\ Abort
    /\ UNCHANGED << diskVars, archVars, tierRes, faults >>

\* lines 102-110: matchPhotos returns, alignCameras is started
MatchDone ==
    /\ pc = "matchPhotos"
    /\ pc' = "alignCameras"
    /\ ops' = ops \cup {"alignCameras"}
    /\ lastCall' = [lastCall EXCEPT !.op = "alignCameras"]
    /\ UNCHANGED << diskVars, doc, i, k, toMerge, all_files, archVars >>
    /\ UNCHANGED << skips, unsaved, prevOK, extractOK, splitsSaved, decoded, failedIn, killedIn,
                    tierRes, faults >>

\* the sets of cameras alignCameras can give a transform to, of M cameras:
\* all of them or, abnormally, none, the first half, or all but the first
AlignOutcomes(M) == { 1..M, {}, 1..(M \div 2), 2..M }

\* line 110: alignCameras returns; it has given a transform to the cameras
\* it could align
AlignDone ==
    /\ pc = "alignCameras"
    /\ \E T \in AlignOutcomes(Len(doc.chunks[1].cameras)) :
          /\ IF T = DOMAIN doc.chunks[1].cameras
             THEN UNCHANGED faults
             ELSE CanFault /\ faults' = faults + 1
          /\ doc' = [doc EXCEPT !.chunks[1].cameras =
                        [n \in DOMAIN @ |-> [@[n] EXCEPT !.transform = (n \in T)]]]
    /\ pc' = "align_save"
    /\ UNCHANGED << diskVars, i, k, toMerge, all_files, archVars >>
    /\ UNCHANGED << ops, skips, lastCall, unsaved, prevOK, extractOK,
                    splitsSaved, decoded, failedIn, killedIn, tierRes >>

\* line 111: doc.save()
AlignSave ==
    /\ pc = "align_save"
    /\ proj' = Saved(doc)
    /\ unsaved' = "none"
    /\ pc' = "split"
    /\ UNCHANGED << videos, frames, tagged, glb, doc, i, k, toMerge, all_files, archVars >>
    /\ UNCHANGED << ops, skips, lastCall, prevOK, extractOK, splitsSaved, decoded, failedIn,
                    killedIn, tierRes, faults >>

(***************************************************************************)
(* The split into CHUNK_COUNT chunks                                       *)
(***************************************************************************)
GpuLabels == << "GPU-0", "GPU-1", "GPU-2", "GPU-3", "GPU-4", "GPU-5",
                "GPU-6", "GPU-7", "GPU-8", "GPU-9" >>

\* SplitComplete changed to a strict comparison
SplitCompleteStrict(d) == Len(d.chunks) > CHUNK_COUNT

\* line 116: the condition under which the split is skipped
SplitComplete(d) == Len(d.chunks) >= CHUNK_COUNT

\* line 122
PerChunk(cameras) == Len(cameras) \div CHUNK_COUNT

\* line 130
SliceStart(n, cameras) == n * PerChunk(cameras)

\* SliceEnd changed so that the last chunk does not take the remainder
SliceEndNoRemainder(n, cameras) == (n + 1) * PerChunk(cameras)

\* line 131
SliceEnd(n, cameras) ==
    IF n < CHUNK_COUNT - 1 THEN (n + 1) * PerChunk(cameras) ELSE Len(cameras)

\* lines 132-135: the cameras of the source chunk whose label is the label
\* of one of cameras[start:end]
SelectedCameras(chunk, n) ==
    LET cameras == chunk.cameras
        selected == { cameras[j].label :
                        j \in (SliceStart(n, cameras) + 1)..SliceEnd(n, cameras) }
        Keep(cam) == cam.label \in selected
    IN  SelectSeq(chunk.cameras, Keep)

\* lines 116-117
SplitSkip ==
    /\ pc = "split"
    /\ SplitComplete(doc)
    /\ pc' = "depth"
    /\ i' = 1
    /\ skips' = skips \cup {"split"}
    /\ UNCHANGED killedIn
    /\ UNCHANGED << diskVars, doc, k, toMerge, all_files, archVars >>
    /\ UNCHANGED << ops, lastCall, unsaved, prevOK, extractOK, splitsSaved, decoded, failedIn,
                    tierRes, faults >>

\* lines 118-125: the loop starts, chunk.copy() is called for i = k
SplitCopyInvoke ==
    /\ \/ pc = "split" /\ ~SplitComplete(doc) /\ k' = 0
       \/ pc = "splitting" /\ k < CHUNK_COUNT /\ UNCHANGED k
    /\ pc' = "copy"
    /\ ops' = ops \cup {"copy"}
    /\ lastCall' = [NoCall EXCEPT !.op = "copy", !.label = doc.chunks[1].label,
                                  !.ncams = Len(doc.chunks[1].cameras)]
    /\ UNCHANGED killedIn
    /\ UNCHANGED << diskVars, doc, i, toMerge, all_files, archVars >>
    /\ UNCHANGED << skips, unsaved, prevOK, extractOK, splitsSaved, decoded, failedIn, tierRes, faults >>

\* lines 125-137: the copy is relabelled, takes its slice of the cameras
\* and joins doc.chunks
SplitCopyDone ==
    /\ pc = "copy"
    /\ LET chunk == doc.chunks[1]
           new_chunk == [chunk EXCEPT !.label = GpuLabels[k + 1],
                                      !.cameras = SelectedCameras(chunk, k)]
       IN  doc' = [doc EXCEPT !.chunks = Append(@, new_chunk)]
    /\ k' = k + 1
    /\ pc' = "splitting"
    /\ unsaved' = "split"
    /\ UNCHANGED << diskVars, i, toMerge, all_files, archVars >>
    /\ UNCHANGED << ops, skips, lastCall, prevOK, extractOK, splitsSaved, decoded, failedIn,
                    killedIn, tierRes, faults >>

\* line 139: doc.remove(chunk)
SplitRemove ==
    /\ pc = "splitting"
    /\ k = CHUNK_COUNT
    /\ doc' = [doc EXCEPT !.chunks = Tail(@)]
    /\ pc' = "split_save"
    /\ UNCHANGED << diskVars, i, k, toMerge, all_files, histVars, archVars >>

\* line 140: doc.save()
SplitSave ==
    /\ pc = "split_save"
    /\ proj' = Saved(doc)
    /\ unsaved' = "none"
    /\ splitsSaved' = splitsSaved + 1
    /\ pc' = "depth"
    /\ i' = 1
    /\ UNCHANGED << videos, frames, tagged, glb, doc, k, toMerge, all_files, archVars >>
    /\ UNCHANGED << ops, skips, lastCall, prevOK, extractOK, decoded, failedIn, killedIn,
                    tierRes, faults >>

(***************************************************************************)
(* Depth maps, mesh, texture: one loop over doc.chunks each                *)
(***************************************************************************)
CallOn(op, chunk) ==
    [op |-> op, label |-> chunk.label, enabled |-> chunk.enabled,
     ncams |-> Len(chunk.cameras), faces |-> chunk.faces, target |-> 0]

\* line 146: the chunk is disabled, has no camera, or none with a transform
NoValidCameras(chunk) ==
    \/ ~chunk.enabled
    \/ chunk.cameras = << >>
    \/ \A n \in DOMAIN chunk.cameras : ~chunk.cameras[n].transform

\* lines 146-148
DepthSkipInvalid ==
    /\ pc = "depth"
    /\ i <= Len(doc.chunks)
    /\ NoValidCameras(doc.chunks[i])
    /\ i' = i + 1
    /\ skips' = skips \cup {"depth-invalid"}
    /\ UNCHANGED << diskVars, pc, doc, k, toMerge, all_files, archVars >>
    /\ UNCHANGED << ops, lastCall, unsaved, prevOK, extractOK, splitsSaved, decoded, failedIn,
                    killedIn, tierRes, faults >>

\* line 150, false: the chunk has depth maps
DepthSkipBuilt ==
    /\ pc = "depth"
    /\ i <= Len(doc.chunks)
    /\ ~NoValidCameras(doc.chunks[i])
    /\ doc.chunks[i].depth
    /\ i' = i + 1
    /\ skips' = skips \cup {"depth"}
    /\ UNCHANGED << diskVars, pc, doc, k, toMerge, all_files, archVars >>
    /\ UNCHANGED << ops, lastCall, unsaved, prevOK, extractOK, splitsSaved, decoded, failedIn,
                    killedIn, tierRes, faults >>

\* lines 150-157: buildDepthMaps is started
DepthInvoke ==
    /\ pc = "depth"
    /\ i <= Len(doc.chunks)
    /\ ~NoValidCameras(doc.chunks[i])
    /\ ~doc.chunks[i].depth
    /\ pc' = "buildDepthMaps"
    /\ ops' = ops \cup {"buildDepthMaps"}
    /\ lastCall' = CallOn("buildDepthMaps", doc.chunks[i])
    /\ UNCHANGED << diskVars, doc, i, k, toMerge, all_files, archVars >>
    /\ UNCHANGED << skips, unsaved, prevOK, extractOK, splitsSaved, decoded, failedIn, killedIn,
                    tierRes, faults >>

\* AfterDepthBuilt changed so that the loop goes on without line 158
AfterDepthBuiltNoSave == "depth"

\* the pc after a successful buildDepthMaps: line 158 is next
AfterDepthBuilt == "depth_save"

\* buildDepthMaps returns
DepthDone ==
    /\ pc = "buildDepthMaps"
    /\ doc' = [doc EXCEPT !.chunks[i].depth = TRUE]
    /\ unsaved' = "depth"
    /\ pc' = AfterDepthBuilt
    /\ UNCHANGED << diskVars, i, k, toMerge, all_files, archVars >>
    /\ UNCHANGED << ops, skips, lastCall, prevOK, extractOK, splitsSaved, decoded, failedIn,
                    killedIn, tierRes, faults >>

\* line 158: doc.save()
ChunkSave(at, back) ==
    /\ pc = at
    /\ proj' = Saved(doc)
    /\ unsaved' = "none"
    /\ pc' = back
    /\ i' = i + 1
    /\ UNCHANGED << videos, frames, tagged, glb, doc, k, toMerge, all_files, archVars >>
    /\ UNCHANGED << ops, skips, lastCall, prevOK, extractOK, splitsSaved, decoded, failedIn,
                    killedIn, tierRes, faults >>

DepthSave == ChunkSave("depth_save", "depth")

\* the loop of line 143 is over
DepthEnd ==
    /\ pc = "depth"
    /\ i > Len(doc.chunks)
    /\ pc' = "mesh"
    /\ i' = 1
    /\ UNCHANGED << diskVars, doc, k, toMerge, all_files, histVars, archVars >>

\* NeedsModel changed to the inverse test, "if chunk.model"
NeedsModelInverted(chunk) == chunk.model

\* line 171: the condition under which buildModel is called on a chunk
NeedsModel(chunk) == ~chunk.model

\* line 171, false: the chunk has a model
MeshSkip ==
    /\ pc = "mesh"
    /\ i <= Len(doc.chunks)
    /\ ~NeedsModel(doc.chunks[i])
    /\ i' = i + 1
    /\ skips' = skips \cup {"mesh"}
    /\ UNCHANGED << diskVars, pc, doc, k, toMerge, all_files, archVars >>
    /\ UNCHANGED << ops, lastCall, unsaved, prevOK, extractOK, splitsSaved, decoded, failedIn,
                    killedIn, tierRes, faults >>

\* lines 171-182: buildModel is started
MeshInvoke ==
    /\ pc = "mesh"
    /\ i <= Len(doc.chunks)
    /\ NeedsModel(doc.chunks[i])
    /\ pc' = "buildModel"
    /\ ops' = ops \cup {"buildModel"}
    /\ lastCall' = CallOn("buildModel", doc.chunks[i])
    /\ UNCHANGED << diskVars, doc, i, k, toMerge, all_files, archVars >>
    /\ UNCHANGED << skips, unsaved, prevOK, extractOK, splitsSaved, decoded, failedIn, killedIn,
                    tierRes, faults >>

\* the number of cameras of a chunk that have a transform
Aligned(chunk) ==
    Cardinality({ n \in DOMAIN chunk.cameras : chunk.cameras[n].transform })

\* buildModel returns: a model built from the depth maps; an abnormal
\* outcome is a model without faces
MeshDone ==
    /\ pc = "buildModel"
    /\ doc.chunks[i].depth
    /\ \E f \in {0, FacesPerCamera * Aligned(doc.chunks[i])} :
          /\ IF f > 0 THEN UNCHANGED faults
                      ELSE CanFault /\ faults' = faults + 1
          /\ doc' = [doc EXCEPT !.chunks[i].model = TRUE, !.chunks[i].faces = f]
    /\ unsaved' = "mesh"
    /\ pc' = "mesh_save"
    /\ UNCHANGED << diskVars, i, k, toMerge, all_files, archVars >>
    /\ UNCHANGED << ops, skips, lastCall, prevOK, extractOK, splitsSaved, decoded, failedIn,
                    killedIn, tierRes >>

\* buildModel with source_data=DepthMapsData on a chunk without depth maps:
\* the engine has nothing to build from; it raises
MeshNoDepthRaise ==
    /\ pc = "buildModel"
    /\ ~doc.chunks[i].depth
    /\ Abort
    /\ UNCHANGED << diskVars, archVars, tierRes, faults >>

\* ... or it returns and leaves the chunk without a model
MeshNoDepthReturn ==
    /\ pc = "buildModel"
    /\ ~doc.chunks[i].depth
    /\ unsaved' = "mesh"
    /\ pc' = "mesh_save"
    /\ UNCHANGED << diskVars, doc, i, k, toMerge, all_files, archVars >>
    /\ UNCHANGED << ops, skips, lastCall, prevOK, extractOK, splitsSaved, decoded, failedIn,
                    killedIn, tierRes, faults >>

\* line 183: doc.save()
MeshSave == ChunkSave("mesh_save", "mesh")

\* the loop of line 170 is over
MeshEnd ==
    /\ pc = "mesh"
    /\ i > Len(doc.chunks)
    /\ pc' = "texture"
    /\ i' = 1
    /\ UNCHANGED << diskVars, doc, k, toMerge, all_files, histVars, archVars >>

\* lines 187-189
TextureSkipNoModel ==
    /\ pc = "texture"
    /\ i <= Len(doc.chunks)
    /\ ~doc.chunks[i].model
    /\ i' = i + 1
    /\ skips' = skips \cup {"texture-nomodel"}
    /\ UNCHANGED << diskVars, pc, doc, k, toMerge, all_files, archVars >>
    /\ UNCHANGED << ops, lastCall, unsaved, prevOK, extractOK, splitsSaved, decoded, failedIn,
                    killedIn, tierRes, faults >>

\* lines 191, 211-212: the model has a texture
TextureSkipBuilt ==
    /\ pc = "texture"
    /\ i <= Len(doc.chunks)
    /\ doc.chunks[i].model
    /\ doc.chunks[i].tex
    /\ i' = i + 1
    /\ skips' = skips \cup {"texture"}
    /\ UNCHANGED << diskVars, pc, doc, k, toMerge, all_files, archVars >>
    /\ UNCHANGED << ops, lastCall, unsaved, prevOK, extractOK, splitsSaved, decoded, failedIn,
                    killedIn, tierRes, faults >>

\* lines 191-199: buildUV is started
TextureInvokeUV ==
    /\ pc = "texture"
    /\ i <= Len(doc.chunks)
    /\ doc.chunks[i].model
    /\ ~doc.chunks[i].tex
    /\ pc' = "buildUV"
    /\ ops' = ops \cup {"buildUV"}
    /\ lastCall' = CallOn("buildUV", doc.chunks[i])
    /\ UNCHANGED << diskVars, doc, i, k, toMerge, all_files, archVars >>
    /\ UNCHANGED << skips, unsaved, prevOK, extractOK, splitsSaved, decoded, failedIn, killedIn,
                    tierRes, faults >>

\* lines 199-208: buildUV returns, buildTexture is started
TextureUVDone ==
    /\ pc = "buildUV"
    /\ pc' = "buildTexture"
    /\ unsaved' = "texture"
    /\ ops' = ops \cup {"buildTexture"}
    /\ lastCall' = CallOn("buildTexture", doc.chunks[i])
    /\ UNCHANGED << diskVars, doc, i, k, toMerge, all_files, archVars >>
    /\ UNCHANGED << skips, prevOK, extractOK, splitsSaved, decoded, failedIn, killedIn, tierRes, faults >>

\* buildTexture returns
TextureDone ==
    /\ pc = "buildTexture"
    /\ doc' = [doc EXCEPT !.chunks[i].tex = TRUE]
    /\ pc' = "texture_save"
    /\ UNCHANGED << diskVars, i, k, toMerge, all_files, histVars, archVars >>

\* line 210: doc.save()
TextureSave == ChunkSave("texture_save", "texture")

\* the loop of line 186 is over
TextureEnd ==
    /\ pc = "texture"
    /\ i > Len(doc.chunks)
    /\ pc' = "export"
    /\ i' = 1
    /\ UNCHANGED << diskVars, doc, k, toMerge, all_files, histVars, archVars >>

(***************************************************************************)
(* export_merged_glb, called for the three tiers of lines 271-273          *)
(***************************************************************************)
\* a ratio is num/den; hasRatio is FALSE for decimate_ratio=None
Tiers == << [label |-> "full", hasRatio |-> FALSE, num |-> 0, den |-> 1],
            [label |-> "medium", hasRatio |-> TRUE, num |-> 15, den |-> 100],
            [label |-> "low", hasRatio |-> TRUE, num |-> 3, den |-> 100] >>

\* f"Merged_{label}"
MergedLabel(label) ==
    CASE label = "full" -> "Merged_full"
      [] label = "medium" -> "Merged_medium"
      [] OTHER -> "Merged_low"

\* line 247: whether decimateModel is called for the tier
Decimates(tier) == tier.hasRatio

\* TargetFaces changed to round up
TargetFacesCeil(F, tier) == (F * tier.num + tier.den - 1) \div tier.den

\* line 249: int(len(merged_chunk.model.faces) * decimate_ratio); for the
\* ratios 0.15 and 0.03 the double product truncates to the exact quotient
TargetFaces(F, tier) == (F * tier.num) \div tier.den

\* ChunksToMerge changed to leave out the test of line 230
ChunksToMergeAnyModel(d) ==
    { j \in 1..Len(d.chunks) : d.chunks[j].enabled /\ d.chunks[j].model }

\* lines 225-231: the chunks that are enabled and have a model with faces
ChunksToMerge(d) ==
    { j \in 1..Len(d.chunks) :
        /\ d.chunks[j].enabled /\ d.chunks[j].model
        /\ d.chunks[j].model /\ d.chunks[j].faces > 0 }

\* the faces of the chunks of S together
SumFaces(chunks, S) ==
    LET sum[n \in 0..Len(chunks)] ==
            IF n = 0 THEN 0
            ELSE sum[n - 1] + (IF n \in S THEN chunks[n].faces ELSE 0)
    IN  sum[Len(chunks)]

\* the cameras of the chunks of S, in the order of the chunks
AllCameras(chunks, S) ==
    LET cams[n \in 0..Len(chunks)] ==
            IF n = 0 THEN << >>
            ELSE cams[n - 1] \o (IF n \in S THEN chunks[n].cameras ELSE << >>)
    IN  cams[Len(chunks)]

\* lines 233-235: no chunk qualifies, the tier returns
ExportNothing ==
    /\ pc = "export"
    /\ i <= Len(Tiers)
    /\ ChunksToMerge(doc) = {}
    /\ tierRes' = [tierRes EXCEPT ![Tiers[i].label] = "nothing"]
    /\ i' = i + 1
    /\ UNCHANGED << diskVars, pc, doc, k, toMerge, all_files, archVars >>
    /\ UNCHANGED << ops, skips, lastCall, unsaved, prevOK, extractOK,
                    splitsSaved, decoded, failedIn, killedIn, faults >>

\* lines 237-238: mergeChunks is started
ExportMergeInvoke ==
    /\ pc = "export"
    /\ i <= Len(Tiers)
    /\ ChunksToMerge(doc) # {}
    /\ toMerge' = ChunksToMerge(doc)
    /\ pc' = "mergeChunks"
    /\ ops' = ops \cup {"mergeChunks"}
    /\ lastCall' = [NoCall EXCEPT !.op = "mergeChunks", !.label = Tiers[i].label]
    /\ tierRes' = [tierRes EXCEPT ![Tiers[i].label] = "started"]
    /\ UNCHANGED << diskVars, doc, i, k, all_files, archVars >>
    /\ UNCHANGED << skips, unsaved, prevOK, extractOK, splitsSaved, decoded, failedIn, killedIn, faults >>

\* mergeChunks returns: a new last chunk holding the merged model; the
\* abnormal outcomes are a new chunk without a model, and no new chunk
MergeDone ==
    /\ pc = "mergeChunks"
    /\ LET merged == [NewChunk("Merged Chunk", AllCameras(doc.chunks, toMerge))
                        EXCEPT !.model = TRUE, !.tex = TRUE,
                               !.faces = SumFaces(doc.chunks, toMerge)]
       IN  \/ /\ doc' = [doc EXCEPT !.chunks = Append(@, merged)]
              /\ UNCHANGED faults
           \/ /\ CanFault
              /\ faults' = faults + 1
              /\ doc' = [doc EXCEPT !.chunks = Append(@,
                            [merged EXCEPT !.model = FALSE, !.tex = FALSE, !.faces = 0])]
           \/ /\ CanFault
              /\ faults' = faults + 1
              /\ UNCHANGED doc
    /\ pc' = "merged"
    /\ UNCHANGED << diskVars, i, k, toMerge, all_files, archVars >>
    /\ UNCHANGED << ops, skips, lastCall, unsaved, prevOK, extractOK,
                    splitsSaved, decoded, failedIn, killedIn, tierRes >>

\* line 240: merged_chunk = doc.chunks[-1]
MergedChunk(d) == d.chunks[Len(d.chunks)]

\* lines 242-244: the last chunk has no model, the tier returns
ExportNoModel ==
    /\ pc = "merged"
    /\ ~MergedChunk(doc).model
    /\ tierRes' = [tierRes EXCEPT ![Tiers[i].label] = "nomodel"]
    /\ pc' = "export"
    /\ i' = i + 1
    /\ UNCHANGED << diskVars, doc, k, toMerge, all_files, archVars >>
    /\ UNCHANGED << ops, skips, lastCall, unsaved, prevOK, extractOK,
                    splitsSaved, decoded, failedIn, killedIn, faults >>

\* lines 246-254: the last chunk is relabelled; decimateModel is started for
\* a tier with a ratio, exportModel for one without
ExportRelabel ==
    /\ pc = "merged"
    /\ MergedChunk(doc).model
    /\ doc' = [doc EXCEPT !.chunks[Len(doc.chunks)].label = MergedLabel(Tiers[i].label)]
    /\ LET F == MergedChunk(doc).faces
       IN  IF Decimates(Tiers[i])
           THEN /\ pc' = "decimateModel"
                /\ ops' = ops \cup {"decimateModel"}
                /\ lastCall' = [NoCall EXCEPT !.op = "decimateModel",
                                   !.label = Tiers[i].label, !.faces = F,
                                   !.target = TargetFaces(F, Tiers[i])]
           ELSE /\ pc' = "exportModel"
                /\ ops' = ops \cup {"exportModel"}
                /\ lastCall' = [NoCall EXCEPT !.op = "exportModel",
                                   !.label = Tiers[i].label, !.faces = F]
    /\ UNCHANGED << diskVars, i, k, toMerge, all_files, archVars >>
    /\ UNCHANGED << skips, unsaved, prevOK, extractOK, splitsSaved, decoded, failedIn, killedIn,
                    tierRes, faults >>

\* lines 250-254: decimateModel returns, exportModel is started
DecimateDone ==
    /\ pc = "decimateModel"
    /\ doc' = [doc EXCEPT !.chunks[Len(doc.chunks)].faces = lastCall.target]
    /\ pc' = "exportModel"
    /\ ops' = ops \cup {"exportModel"}
    /\ lastCall' = [NoCall EXCEPT !.op = "exportModel", !.label = Tiers[i].label,
                                  !.faces = lastCall.target]
    /\ UNCHANGED << diskVars, i, k, toMerge, all_files, archVars >>
    /\ UNCHANGED << skips, unsaved, prevOK, extractOK, splitsSaved, decoded, failedIn, killedIn,
                    tierRes, faults >>

\* lines 254-263: exportModel returns, the .glb file is written
ExportModelDone ==
    /\ pc = "exportModel"
    /\ glb' = glb \cup { Tiers[i].label }
    /\ pc' = "remove"
    /\ UNCHANGED << videos, frames, tagged, proj, doc, i, k, toMerge, all_files >>
    /\ UNCHANGED << histVars, archVars >>

\* lines 265-268: doc.remove(merged_chunk), the tier returns
ExportRemove ==
    /\ pc = "remove"
    /\ doc' = [doc EXCEPT !.chunks = SubSeq(@, 1, Len(@) - 1)]
    /\ tierRes' = [tierRes EXCEPT ![Tiers[i].label] = "exported"]
    /\ pc' = "export"
    /\ i' = i + 1
    /\ UNCHANGED << diskVars, k, toMerge, all_files, archVars >>
    /\ UNCHANGED << ops, skips, lastCall, unsaved, prevOK, extractOK,
                    splitsSaved, decoded, failedIn, killedIn, faults >>

\* line 275: the three tiers are done
ExportEnd ==
    /\ pc = "export"
    /\ i > Len(Tiers)
    /\ pc' = "done"
    /\ UNCHANGED << diskVars, doc, i, k, toMerge, all_files, histVars, archVars >>

\* every stage has left its artifact: all chunks of the project file have
\* depth maps, a model and a texture, and the run exported the three tiers
AllStagesDone ==
    /\ Len(proj.chunks) = CHUNK_COUNT
    /\ \A n \in DOMAIN proj.chunks :
          proj.chunks[n].depth /\ proj.chunks[n].model /\ proj.chunks[n].tex
    /\ \A t \in TierLabels : tierRes[t] = "exported"

\* the script ends normally
EndRun ==
    /\ pc = "done"
    /\ pc' = "idle"
    /\ doc' = [chunks |-> << >>]
    /\ toMerge' = {}
    /\ all_files' = << >>
    /\ i' = 0
    /\ k' = 0
    /\ prevOK' = AllStagesDone
    /\ killedIn' = NoKill
    /\ UNCHANGED << diskVars, archVars >>
    /\ UNCHANGED << ops, skips, lastCall, unsaved, extractOK, splitsSaved, decoded, failedIn,
                    tierRes, faults >>

(***************************************************************************)
(* The environment of a run                                                *)
(***************************************************************************)
\* an engine call raises; nothing catches it (no try in lines 78-275)
EngineFail ==
    /\ pc \in EnginePcs
    /\ CanFault
    /\ Abort
    /\ faults' = faults + 1
    /\ tierRes' = IF pc \in {"mergeChunks", "decimateModel", "exportModel"}
                  THEN [tierRes EXCEPT ![Tiers[i].label] = "failed"]
                  ELSE tierRes
    /\ UNCHANGED << diskVars, archVars >>

\* the process is killed
Kill ==
    /\ pc # "idle"
    /\ CanFault
    /\ Exit(IF pc \in EnginePcs \cup {"ffmpeg", "exiftool"}
            THEN [op |-> pc, unit |-> IF pc = "copy" THEN k ELSE i]
            ELSE NoKill)
    /\ faults' = faults + 1
    /\ UNCHANGED << diskVars, archVars, tierRes, failedIn >>

\* between two runs the user disables a chunk of the project
UserDisable ==
    /\ pc = "idle"
    /\ CanFault
    /\ \E j \in 1..Len(proj.chunks) :
          /\ proj.chunks[j].enabled
          /\ proj' = [proj EXCEPT !.chunks[j].enabled = FALSE]
    /\ prevOK' = FALSE
    /\ faults' = faults + 1
    /\ UNCHANGED << videos, frames, tagged, glb, procVars, archVars >>
    /\ UNCHANGED << ops, skips, lastCall, unsaved, extractOK, splitsSaved, decoded, failedIn,
                    killedIn, tierRes >>

ExtractStep ==
    \/ ExtractIgnore \/ ExtractSkip \/ ExtractInvoke \/ FfmpegWrite
    \/ FfmpegExit \/ FfmpegFail \/ ExtractReturn

TagStep ==
    \/ TagNoFiles \/ TagProbe \/ TagSkip \/ TagBegin \/ TagBatchInvoke \/ ExiftoolWrite
    \/ ExiftoolExit \/ ExiftoolFail \/ TagReturn

AlignStep ==
    \/ OpenProject \/ AlignSkip \/ AlignBegin \/ AlignNoImages \/ MatchDone
    \/ AlignDone \/ AlignSave

SplitStep ==
    \/ SplitSkip \/ SplitCopyInvoke \/ SplitCopyDone \/ SplitRemove \/ SplitSave

BuildStep ==
    \/ DepthSkipInvalid \/ DepthSkipBuilt \/ DepthInvoke \/ DepthDone
    \/ DepthSave \/ DepthEnd
    \/ MeshSkip \/ MeshInvoke \/ MeshDone \/ MeshNoDepthRaise \/ MeshNoDepthReturn
    \/ MeshSave \/ MeshEnd
    \/ TextureSkipNoModel \/ TextureSkipBuilt \/ TextureInvokeUV
    \/ TextureUVDone \/ TextureDone \/ TextureSave \/ TextureEnd

ExportStep ==
    \/ ExportNothing \/ ExportMergeInvoke \/ MergeDone \/ ExportNoModel
    \/ ExportRelabel \/ DecimateDone \/ ExportModelDone \/ ExportRemove
    \/ ExportEnd

(***************************************************************************)
(* compress.py, the archiver: a script of its own, run after the pipeline. *)
(* An archive file is <<label, part>>: part 0 is label.7z, part n > 0 the  *)
(* volume label.7z.00n that 7z writes under -v5g.                          *)
(***************************************************************************)
\* lines 39-46 and 49: the labels in the order the script takes them
ArchLabels == << "merged_obj", "merged_glb", "medium_obj", "medium_glb",
                 "low_obj", "low_glb", "full_project" >>

\* lines 41-46: the files compress() is given for a label
SourcesOf(label) ==
    CASE label = "merged_obj" -> { << "merged", "obj" >>, << "merged", "mtl" >> }
      [] label = "merged_glb" -> { << "merged", "glb" >> }
      [] label = "medium_obj" -> { << "medium", "obj" >>, << "medium", "mtl" >> }
      [] label = "medium_glb" -> { << "medium", "glb" >> }
      [] label = "low_obj" -> { << "low", "obj" >>, << "low", "mtl" >> }
      [] label = "low_glb" -> { << "low", "glb" >> }
      [] OTHER -> {}

SrcUniverse == UNION { SourcesOf(ArchLabels[n]) : n \in DOMAIN ArchLabels }

\* ArchiveExists changed to look at the base file only
ArchiveExistsBaseOnly(label) == << label, 0 >> \in arch

\* lines 18-21: base_archive.exists() or split_archives
ArchiveExists(label) ==
    \/ << label, 0 >> \in arch
    \/ \E f \in arch : f[1] = label /\ f[2] >= 1

\* lines 28-29 for compress(); line 55 gives the project directory itself
HasSources(label) ==
    IF label = "full_project" THEN TRUE
    ELSE \E f \in SourcesOf(label) : f \in srcFiles

\* the script starts
ArchStart ==
    /\ apc = "idle"
    /\ apc' = "label"
    /\ ai' = 1
    /\ askips' = {}
    /\ UNCHANGED << arch, srcFiles, nvol, calls7z, faults >>
    /\ UNCHANGED << diskVars, procVars, ops, skips, lastCall, unsaved, prevOK,
                    extractOK, splitsSaved, decoded, failedIn, killedIn, tierRes >>

\* lines 24-26, 49-50: an archive exists for the label
ArchSkip ==
    /\ apc = "label"
    /\ ai <= Len(ArchLabels)
    /\ ArchiveExists(ArchLabels[ai])
    /\ ai' = ai + 1
    /\ askips' = askips \cup { ArchLabels[ai] }
    /\ UNCHANGED << arch, srcFiles, apc, nvol, calls7z, faults >>
    /\ UNCHANGED << diskVars, procVars, ops, skips, lastCall, unsaved, prevOK,
                    extractOK, splitsSaved, decoded, failedIn, killedIn, tierRes >>

\* lines 28-31: none of the label's source files exists
ArchNoSources ==
    /\ apc = "label"
    /\ ai <= Len(ArchLabels)
    /\ ~ArchiveExists(ArchLabels[ai])
    /\ ~HasSources(ArchLabels[ai])
    /\ ai' = ai + 1
    /\ UNCHANGED << arch, srcFiles, apc, nvol, calls7z, askips, faults >>
    /\ UNCHANGED << diskVars, procVars, ops, skips, lastCall, unsaved, prevOK,
                    extractOK, splitsSaved, decoded, failedIn, killedIn, tierRes >>

\* lines 33-35, 52-56: 7z is started
ArchCompress ==
    /\ apc = "label"
    /\ ai <= Len(ArchLabels)
    /\ ~ArchiveExists(ArchLabels[ai])
    /\ HasSources(ArchLabels[ai])
    /\ apc' = "7z"
    /\ nvol' = 0
    /\ calls7z' = [calls7z EXCEPT ![ArchLabels[ai]] = @ + 1]
    /\ UNCHANGED << arch, srcFiles, ai, askips, faults >>
    /\ UNCHANGED << diskVars, procVars, ops, skips, lastCall, unsaved, prevOK,
                    extractOK, splitsSaved, decoded, failedIn, killedIn, tierRes >>

\* 7z writes the next volume
SevenZipWrite ==
    /\ apc = "7z"
    /\ nvol < MaxVolumes
    /\ arch' = arch \cup { << ArchLabels[ai], nvol + 1 >> }
    /\ nvol' = nvol + 1
    /\ UNCHANGED << srcFiles, apc, ai, calls7z, askips, faults >>
    /\ UNCHANGED << diskVars, procVars, ops, skips, lastCall, unsaved, prevOK,
                    extractOK, splitsSaved, decoded, failedIn, killedIn, tierRes >>

\* 7z exits 0 after its last volume
SevenZipExit ==
    /\ apc = "7z"
    /\ nvol >= 1
    /\ apc' = "label"
    /\ ai' = ai + 1
    /\ nvol' = 0
    /\ UNCHANGED << arch, srcFiles, calls7z, askips, faults >>
    /\ UNCHANGED << diskVars, procVars, ops, skips, lastCall, unsaved, prevOK,
                    extractOK, splitsSaved, decoded, failedIn, killedIn, tierRes >>

\* 7z exits non-zero (check=True raises), or the script is killed
ArchDie ==
    /\ apc # "idle"
    /\ CanFault
    /\ faults' = faults + 1
    /\ apc' = "idle"
    /\ ai' = 0
    /\ nvol' = 0
    /\ UNCHANGED << arch, srcFiles, calls7z, askips >>
    /\ UNCHANGED << diskVars, procVars, ops, skips, lastCall, unsaved, prevOK,
                    extractOK, splitsSaved, decoded, failedIn, killedIn, tierRes >>

\* the script ends
ArchEnd ==
    /\ apc = "label"
    /\ ai > Len(ArchLabels)
    /\ apc' = "idle"
    /\ ai' = 0
    /\ UNCHANGED << arch, srcFiles, nvol, calls7z, askips, faults >>
    /\ UNCHANGED << diskVars, procVars, ops, skips, lastCall, unsaved, prevOK,
                    extractOK, splitsSaved, decoded, failedIn, killedIn, tierRes >>

InitArchiveIdle ==
    /\ arch = {}
    /\ srcFiles = {}
    /\ apc = "idle"
    /\ ai = 0
    /\ nvol = 0
    /\ calls7z = [l \in { ArchLabels[n] : n \in DOMAIN ArchLabels } |-> 0]
    /\ askips = {}

Init == InitPipeline /\ InitArchiveIdle

Next ==
    \/ StartRun \/ ExtractStep \/ TagStep \/ AlignStep \/ SplitStep
    \/ BuildStep \/ ExportStep \/ EndRun
    \/ EngineFail \/ Kill \/ UserDisable

Spec == Init /\ [][Next]_vars

(***************************************************************************)
(* The archiver on its own: the archive directory may hold the base file   *)
(* of one archive made earlier, the exports directory up to MaxSrcFiles of *)
(* the files the script looks for.                                         *)
(***************************************************************************)
InitArchive ==
    /\ InitPipeline
    /\ videos = DirNoVideo
    /\ arch \in { {}, { << "merged_glb", 0 >> }, { << "full_project", 0 >> } }
    /\ srcFiles \in { S \in SUBSET SrcUniverse : Cardinality(S) <= MaxSrcFiles }
    /\ apc = "idle"
    /\ ai = 0
    /\ nvol = 0
    /\ calls7z = [l \in { ArchLabels[n] : n \in DOMAIN ArchLabels } |-> 0]
    /\ askips = {}

NextArchive ==
    \/ ArchStart \/ ArchSkip \/ ArchNoSources \/ ArchCompress
    \/ SevenZipWrite \/ SevenZipExit \/ ArchDie \/ ArchEnd

SpecArchive == InitArchive /\ [][NextArchive]_vars

(***************************************************************************)
(* The split step on its own: the run has loaded a session that holds one  *)
(* aligned chunk of M cameras, or one that is split already.               *)
(***************************************************************************)
MaxCameras == 20

MainOf(M) ==
    NewChunk("MainChunk", [n \in 1..M |-> [label |-> n, transform |-> TRUE]])

SplitOf(M) ==
    [n \in 1..CHUNK_COUNT |->
        [MainOf(M) EXCEPT !.label = GpuLabels[n],
                          !.cameras = SelectedCameras(MainOf(M), n - 1)]]

InitSplit ==
    /\ videos = DirNoVideo
    /\ frames = [b \in Bases |-> 0]
    /\ tagged = {}
    /\ glb = {}
    /\ \E M \in 0..MaxCameras :
          doc \in { [chunks |-> << MainOf(M) >>], [chunks |-> SplitOf(M)] }
    /\ proj = Saved(doc)
    /\ pc = "split"
    /\ i = 0
    /\ k = 0
    /\ toMerge = {}
    /\ all_files = << >>
    /\ ops = {}
    /\ skips = {}
    /\ lastCall = NoCall
    /\ unsaved = "none"
    /\ prevOK = FALSE
    /\ extractOK = TRUE
    /\ splitsSaved = 0
    /\ killedIn = NoKill
    /\ tierRes = [t \in TierLabels |-> "none"]
    /\ decoded = {}
    /\ failedIn = NoFail
    /\ faults = 0
    /\ InitArchiveIdle

NextSplit ==
    \/ SplitSkip \/ SplitCopyInvoke \/ SplitCopyDone \/ SplitRemove \/ SplitSave

SpecSplit == InitSplit /\ [][NextSplit]_vars

(***************************************************************************)
(* The tagging on its own: the frames directory holds the MaxTagFrames     *)
(* frames of one video decoded earlier, none of them tagged; runs are      *)
(* followed up to the return of inject_360_metadata.                       *)
(***************************************************************************)
MaxTagFrames == 202

\* "v.mp4"
DirOne == { << 118, 46, 109, 112, 52 >> }

InitTag ==
    /\ videos = DirOne
    /\ frames = [b \in Bases |-> MaxTagFrames]
    /\ tagged = {}
    /\ proj = [exists |-> FALSE, chunks |-> << >>]
    /\ glb = {}
    /\ pc = "idle"
    /\ doc = [chunks |-> << >>]
    /\ i = 0
    /\ k = 0
    /\ toMerge = {}
    /\ all_files = << >>
    /\ ops = {}
    /\ skips = {}
    /\ lastCall = NoCall
    /\ unsaved = "none"
    /\ prevOK = FALSE
    /\ extractOK = TRUE
    /\ splitsSaved = 0
    /\ killedIn = NoKill
    /\ tierRes = [t \in TierLabels |-> "none"]
    /\ decoded = videos
    /\ failedIn = NoFail
    /\ faults = 0
    /\ InitArchiveIdle

\* inject_360_metadata has returned; the rest of the run, which does not
\* touch the frames, is not followed
TagRunOver ==
    /\ pc = "open"
    /\ Exit(NoKill)
    /\ UNCHANGED << diskVars, archVars, tierRes, failedIn, faults >>

NextTag ==
    \/ StartRun \/ ExtractSkip \/ ExtractReturn
    \/ TagProbe \/ TagSkip \/ TagBegin \/ TagBatchInvoke \/ ExiftoolWrite
    \/ ExiftoolExit \/ ExiftoolFail \/ TagReturn \/ TagRunOver
    \/ Kill

SpecTag == InitTag /\ [][NextTag]_vars

(***************************************************************************)
(* Properties                                                              *)
(***************************************************************************)

\* C1: a run that follows a run that completed every stage, nothing having
\* gone wrong in either, invokes no external operation (the read-only probe
\* of exiftool aside): every stage is skipped.
C1_SecondRunSkipsAll ==
    (prevOK /\ faults = 0 /\ pc # "idle") => ops \ {"exiftool-probe"} = {}

\* the cameras of the example of C2: 100 of them
Cams100 == [n \in 1..100 |-> [label |-> n, transform |-> TRUE]]

\* C2: when the split loop has made its CHUNK_COUNT copies, copy j holds the
\* cameras [j*(M div N), (j+1)*(M div N)) of the source chunk for j < N-1 and
\* [(N-1)*(M div N), M) for j = N-1; every camera of the source chunk is in
\* exactly one copy, and the last copy has M - (N-1)*(M div N) cameras.  For
\* M = 100 the slices are seven of 12 and one of 16.
C2_PartitionComplete ==
    /\ (pc = "splitting" /\ k = CHUNK_COUNT) =>
          LET orig == doc.chunks[1].cameras
              M == Len(orig)
              per == M \div 8
              part(j) == doc.chunks[Len(doc.chunks) - 8 + 1 + j].cameras
          IN  /\ \A j \in 0..6 : part(j) = SubSeq(orig, j * per + 1, (j + 1) * per)
              /\ part(7) = SubSeq(orig, 7 * per + 1, M)
              /\ \A c \in 1..M :
                    Cardinality({ << j, n >> \in (0..7) \X (1..M) :
                                    n <= Len(part(j)) /\ part(j)[n] = orig[c] }) = 1
              /\ Len(part(7)) = M - 7 * per
    /\ \A j \in 0..6 : SliceEnd(j, Cams100) - SliceStart(j, Cams100) = 12
    /\ SliceEnd(7, Cams100) - SliceStart(7, Cams100) = 16

\* C2 witness: the loop has split 20 cameras (two per chunk, six in the last)
C2_Witness ==
    /\ pc = "splitting" /\ k = CHUNK_COUNT
    /\ Len(doc.chunks[1].cameras) = 20
    /\ Len(doc.chunks[Len(doc.chunks)].cameras) = 6

\* C3: a split step reached with CHUNK_COUNT chunks in the session changes
\* neither the document nor the project file and copies nothing; a split is
\* saved at most once, and the project file never holds more than
\* CHUNK_COUNT chunks.
C3_SplitIdempotent ==
    /\ [][ (pc = "split" /\ Len(doc.chunks) = 8 /\ pc' # "idle")
              => (doc' = doc /\ proj' = proj /\ pc' = "depth" /\ ops' = ops) ]_vars
    /\ [](splitsSaved <= 1 /\ Len(proj.chunks) <= 8)

\* C3 witness: a later run has skipped the split of a session split earlier
C3_Witness ==
    /\ pc = "depth"
    /\ "split" \in skips
    /\ splitsSaved = 1
    /\ Len(doc.chunks) = 8

\* C4: when the export of tier "medium" has failed by raising, the export
\* of tier "low" has still been executed when the run is over.
C4_TierIsolation ==
    (pc = "idle" /\ tierRes["medium"] = "failed") => tierRes["low"] = "exported"

\* C5: decimateModel is called with face_count = floor(F * r), F the face
\* count of the merged model and r the tier's ratio (0.15 for "medium", 0.03
\* for "low"), and never for the tier without a ratio ("full"); 1,000,000
\* faces at ratio 0.03 give 30,000.
C5_ReductionTarget ==
    /\ lastCall.op = "decimateModel" =>
          /\ lastCall.label \in {"medium", "low"}
          /\ pc = "decimateModel" => lastCall.faces = MergedChunk(doc).faces
          /\ LET num == IF lastCall.label = "medium" THEN 15 ELSE 3
             IN  /\ lastCall.target * 100 <= lastCall.faces * num
                 /\ lastCall.faces * num < (lastCall.target + 1) * 100
    /\ (pc = "exportModel" /\ i = 1) => "decimateModel" \notin ops
    /\ TargetFaces(1000000, Tiers[3]) = 30000

\* C5 witness: decimateModel is called for tier "low" on a merged model whose
\* face count times 0.03 is no integer
C5_Witness ==
    /\ lastCall.op = "decimateModel"
    /\ lastCall.label = "low"
    /\ lastCall.target > 0
    /\ (lastCall.faces * 3) % 100 # 0

\* C6: while the archive directory holds label.7z or a volume label.7z.<part>,
\* no step invokes 7z for that label.
C6_ArchiveSkip ==
    [][ \A n \in DOMAIN ArchLabels :
          (\E f \in arch : f[1] = ArchLabels[n])
             => calls7z'[ArchLabels[n]] = calls7z[ArchLabels[n]] ]_vars

\* C6 witness: a later run of the archiver skips a label that an earlier run
\* compressed into volumes
C6_Witness ==
    \E n \in DOMAIN ArchLabels :
        /\ ArchLabels[n] \in askips
        /\ calls7z[ArchLabels[n]] = 1
        /\ << ArchLabels[n], 0 >> \notin arch

\* C7: at its check, extract_frames starts the decoder for a video exactly
\* when no file of the frames directory is named <base>_*.jpg; once
\* extract_frames has returned normally, no later step starts the decoder or
\* adds a frame.
C7_ExtractOnlyWhenNoFrames ==
    /\ [][ (pc = "extract" /\ i <= Len(Listing) /\ IsVideo(Listing[i]) /\ pc' # "idle")
              => ((pc' = "ffmpeg") <=>
                    LET pat == SplitextBase(Listing[i]) \o << 95 >>
                    IN  ~\E b \in DOMAIN frames : \E n \in 1..frames[b] :
                            LET nm == FrameName(b, n)
                            IN  /\ Len(nm) >= Len(pat) + 4
                                /\ SubSeq(nm, 1, Len(pat)) = pat
                                /\ SubSeq(nm, Len(nm) - 3, Len(nm)) = << 46, 106, 112, 103 >>) ]_vars
    /\ [][ extractOK => (pc' # "ffmpeg" /\ frames' = frames) ]_vars

\* C7 witness: a second invocation has returned, having skipped a video and
\* started no decoder
C7_Witness ==
    /\ pc = "tag"
    /\ extractOK
    /\ "extract" \in skips
    /\ "ffmpeg" \notin ops

\* C8: the run after a kill finds the stage that was in progress incomplete
\* for the unit it was working on.
C8_KilledStageRedone ==
    /\ (killedIn.op = "ffmpeg" /\ pc = "extract" /\ i = killedIn.unit)
          => ~FramesExist(SplitextBase(Listing[i]))
    /\ (killedIn.op \in {"matchPhotos", "alignCameras"} /\ pc = "align")
          => ~AlignComplete(doc)
    /\ (killedIn.op = "copy" /\ pc = "split") => ~SplitComplete(doc)
    /\ (killedIn.op = "buildDepthMaps" /\ pc = "depth" /\ i = killedIn.unit)
          => ~doc.chunks[i].depth
    /\ (killedIn.op = "buildModel" /\ pc = "mesh" /\ i = killedIn.unit)
          => ~doc.chunks[i].model
    /\ (killedIn.op \in {"buildUV", "buildTexture"} /\ pc = "texture"
          /\ i = killedIn.unit) => ~doc.chunks[i].tex

\* C9: when a stage operation is started (the first copy of the split,
\* buildDepthMaps, buildModel, buildUV, the merge of the export), the
\* document in memory is the one in the project file: every earlier
\* successful stage operation has been saved.  buildTexture follows the
\* buildUV of its own chunk.
C9_CheckpointDiscipline ==
    /\ (\/ pc \in {"buildDepthMaps", "buildModel", "buildUV"}
        \/ pc = "copy" /\ k = 0
        \/ pc = "mergeChunks" /\ i = 1)
          => (unsaved = "none" /\ doc.chunks = proj.chunks)
    /\ pc = "buildTexture" => unsaved = "texture"
    /\ pc \in {"matchPhotos", "alignCameras"} => (unsaved = "align" /\ proj.chunks = << >>)

\* C9 witness: buildModel is started in a run that has built depth maps
C9_Witness ==
    /\ pc = "buildModel"
    /\ i >= 2
    /\ "buildDepthMaps" \in ops

\* C10: buildDepthMaps, buildModel, buildUV and buildTexture are called only
\* on chunks that are enabled and have cameras.
C10_OnlyEnabledNonEmpty ==
    lastCall.op \in {"buildDepthMaps", "buildModel", "buildUV", "buildTexture"}
        => (lastCall.enabled /\ lastCall.ncams > 0)

\* the build operations of the per-chunk loops
BuildOps == { "buildDepthMaps", "buildModel", "buildUV", "buildTexture" }

\* C11: when a run has ended because a depth, model or texture operation
\* raised for one partition (one that has cameras with a transform), the
\* other partitions that could go through that stage have gone through it:
\* they hold the stage's artifact.
C11_PartitionIsolation ==
    (/\ pc = "idle"
     /\ failedIn.op \in BuildOps
     /\ failedIn.unit \in DOMAIN proj.chunks
     /\ ~NoValidCameras(proj.chunks[failedIn.unit])) =>
        \A n \in DOMAIN proj.chunks :
            n # failedIn.unit =>
                CASE failedIn.op = "buildDepthMaps" ->
                        ~NoValidCameras(proj.chunks[n]) => proj.chunks[n].depth
                  [] failedIn.op = "buildModel" ->
                        proj.chunks[n].depth => proj.chunks[n].model
                  [] OTHER ->
                        proj.chunks[n].model => proj.chunks[n].tex

\* the operations of the stages in the order the driver takes them
StageOps == << {"ffmpeg"}, {"exiftool-probe", "exiftool"},
               {"matchPhotos", "alignCameras"}, {"copy"}, BuildOps,
               {"mergeChunks", "decimateModel", "exportModel"} >>
\* the operations of the main chain
MainChainOps == {"ffmpeg", "exiftool", "matchPhotos", "alignCameras", "copy"}
\* the position in StageOps of the stage of an operation
StageOf(op) == CHOOSE n \in DOMAIN StageOps : op \in StageOps[n]

\* C12: once ffmpeg, exiftool, matchPhotos, alignCameras or the copy of the
\* split has failed in a run, the run is over and has invoked no operation of
\* a later stage; the step that fails writes nothing to the project file,
\* which holds no chunk after a failed alignment and the one unsplit chunk
\* after a failed split.
C12_FatalHalts ==
    /\ [][ (failedIn.op = "none" /\ failedIn'.op \in MainChainOps)
              => (proj' = proj /\ glb' = glb /\ ops' = ops) ]_vars
    /\ [](failedIn.op \in MainChainOps =>
            /\ pc = "idle"
            /\ ops \subseteq UNION { StageOps[n] : n \in 1..StageOf(failedIn.op) }
            /\ failedIn.op \in {"matchPhotos", "alignCameras"} => proj.chunks = << >>
            /\ failedIn.op = "copy" => (Len(proj.chunks) = 1 /\ splitsSaved = 0))

\* C12 witness: a run has ended in a failed copy of the split, the alignment
\* before it saved
C12_Witness ==
    /\ pc = "idle"
    /\ failedIn.op = "copy"
    /\ failedIn.unit > 0
    /\ "alignCameras" \in ops

\* how many files of all_files the tagging loop has passed to exiftool and
\* exiftool has rewritten, while the loop runs
TagPos == IF i + k < Len(all_files) THEN i + k ELSE Len(all_files)

\* C13: after the probe of the last file in sorted order, tagging is skipped
\* exactly when the probe read "True" (the file carries the flag and the
\* probe did not fail); otherwise the loop passes the files to exiftool in
\* batches that start at the multiples of batch_size and hold at most
\* batch_size files, one file after the other in the order of all_files, so
\* that every file is in exactly one batch, and when the loop ends every JPG
\* file has been rewritten.
C13_TagFailOpen ==
    /\ [][ (pc = "probed" /\ pc' # "idle")
              => /\ pc' \in {"open", "tagging"}
                 /\ (pc' = "open") <=>
                       (all_files[Len(all_files)] \in tagged /\ faults' = faults) ]_vars
    /\ [](pc \in {"probed", "tagging", "exiftool"} =>
             { all_files[r] : r \in DOMAIN all_files } = FrameFiles)
    /\ [](pc \in {"tagging", "exiftool"} =>
             /\ i % BATCH_SIZE = 0
             /\ pc = "exiftool" => (i < Len(all_files) /\ k <= BATCH_SIZE)
             /\ pc = "tagging" => k = 0
             /\ \A r \in 1..TagPos : all_files[r] \in tagged)
    /\ [][ (pc = "tagging" /\ pc' = "exiftool") => (i' = i /\ k' = 0) ]_vars
    /\ [][ (pc = "exiftool" /\ pc' = "exiftool")
              => (i' = i /\ k' = k + 1 /\ TagPos' = TagPos + 1) ]_vars
    /\ [][ (pc = "exiftool" /\ pc' = "tagging")
              => (i' = i + BATCH_SIZE /\ (k = BATCH_SIZE \/ i + k = Len(all_files))) ]_vars
    /\ [][ (pc = "tagging" /\ pc' = "open")
              => (TagPos = Len(all_files) /\ FrameFiles \subseteq tagged) ]_vars

\* C13 witness: the probe failed on a sample file that carries the flag, and
\* the loop has started exiftool on its second batch
C13_Witness ==
    /\ pc = "exiftool"
    /\ i = BATCH_SIZE
    /\ k = 0
    /\ Len(all_files) > BATCH_SIZE
    /\ all_files[Len(all_files)] \in tagged

\* C18: from the moment the files are listed, if the last file of the listing
\* carries the flag then every frame file does; so a run that skips tagging
\* leaves no frame file without the flag.
C18_SampleIsLastTagged ==
    /\ (all_files # << >> /\ all_files[Len(all_files)] \in tagged)
          => FrameFiles \subseteq tagged
    /\ "tag" \in skips => FrameFiles \subseteq tagged

\* C18 witness: the run after a kill in the middle of a batch probes the
\* last file and finds no flag, while files before it carry the flag
C18_Witness ==
    /\ pc = "probed"
    /\ killedIn.op = "exiftool"
    /\ all_files[1] \in tagged
    /\ all_files[Len(all_files)] \notin tagged

\* the session has a partition that holds a camera with a transform
HasAlignedCamera(d) ==
    \E n \in DOMAIN d.chunks : \E c \in DOMAIN d.chunks[n].cameras :
        d.chunks[n].cameras[c].transform

\* C14: at the alignment check the run goes on to the split without calling
\* matchPhotos exactly when the loaded session has a partition that holds a
\* camera with a transform.
C14_AlignOracle ==
    [][ (pc = "align" /\ pc' # "idle")
           => ((pc' = "split") <=> HasAlignedCamera(doc)) ]_vars

\* the partitions of a session that are enabled and carry a model with at
\* least one face
Qualifying(d) ==
    { j \in DOMAIN d.chunks :
        d.chunks[j].enabled /\ d.chunks[j].model /\ d.chunks[j].faces >= 1 }

\* C15: at the start of a tier, mergeChunks is called exactly when some
\* partition qualifies, and on exactly the qualifying partitions; when none
\* qualifies the tier returns without an operation, a file or a change of
\* the session, and the next tier is at its start; a run that ends normally
\* has attempted the three tiers.
C15_ExportGather ==
    /\ [][ (pc = "export" /\ i <= Len(Tiers) /\ pc' # "idle")
              => IF Qualifying(doc) = {}
                 THEN /\ pc' = "export" /\ i' = i + 1
                      /\ ops' = ops /\ glb' = glb /\ doc' = doc /\ proj' = proj
                      /\ failedIn' = NoFail
                 ELSE /\ pc' = "mergeChunks" /\ i' = i
                      /\ toMerge' = Qualifying(doc) ]_vars
    /\ [](pc = "mergeChunks" => (toMerge = Qualifying(doc) /\ toMerge # {}))
    /\ [](pc = "done" => \A t \in TierLabels : tierRes[t] # "none")

\* C15 witness: mergeChunks is called while a partition with a model without
\* faces is left out
C15_Witness ==
    /\ pc = "mergeChunks"
    /\ \E j \in DOMAIN doc.chunks :
          doc.chunks[j].model /\ doc.chunks[j].faces = 0 /\ j \notin toMerge

\* the labels a chunk made by mergeChunks can carry
MergedLabels == { "Merged Chunk", "Merged_full", "Merged_medium", "Merged_low" }

\* C16: between the tiers and after the last one the session holds no chunk
\* made by a merge, and no more chunks than the project file, which the
\* export never writes.
C16_MergedTransient ==
    pc \in {"export", "done"} =>
        /\ \A n \in DOMAIN doc.chunks : doc.chunks[n].label \notin MergedLabels
        /\ Len(doc.chunks) <= Len(proj.chunks)

\* where the process is while export_merged_glb runs
ExportPcs == { "export", "mergeChunks", "merged", "decimateModel", "exportModel",
               "remove", "done" }

\* C17: while the tiers are exported the source partitions stay as the
\* project file has them: each is in the session at its place, with its
\* label and its model's faces.
C17_SourcesUntouched ==
    pc \in ExportPcs =>
        \A n \in DOMAIN proj.chunks :
            /\ n \in DOMAIN doc.chunks
            /\ doc.chunks[n].label = proj.chunks[n].label
            /\ doc.chunks[n].faces = proj.chunks[n].faces

\* C19: when extract_frames has returned, every video file of the input
\* directory has been passed to ffmpeg, in this run or an earlier one.
C19_EveryVideoDecoded ==
    pc = "tag" => \A v \in videos : IsVideo(v) => v \in decoded

(***************************************************************************)
(* Resumption.  A session of five videos whose frames have been extracted  *)
(* by an earlier run; no frame is tagged yet and the project directory is  *)
(* empty.  Runs are started again and again and a started process takes    *)
(* its next step; failures and kills are the only interruptions and there  *)
(* are at most MaxFaults of them.                                          *)
(***************************************************************************)
InitResume ==
    /\ videos = DirFive
    /\ frames = [b \in Bases |-> FramesPerVideo]
    /\ tagged = {}
    /\ proj = [exists |-> FALSE, chunks |-> << >>]
    /\ glb = {}
    /\ pc = "idle"
    /\ doc = [chunks |-> << >>]
    /\ i = 0
    /\ k = 0
    /\ toMerge = {}
    /\ all_files = << >>
    /\ ops = {}
    /\ skips = {}
    /\ lastCall = NoCall
    /\ unsaved = "none"
    /\ prevOK = FALSE
    /\ extractOK = TRUE
    /\ splitsSaved = 0
    /\ killedIn = NoKill
    /\ tierRes = [t \in TierLabels |-> "none"]
    /\ decoded = videos
    /\ failedIn = NoFail
    /\ faults = 0
    /\ InitArchiveIdle

\* the steps of a running process (lines 289-292 and all they call)
RunStep ==
    \/ ExtractSkip \/ ExtractReturn \/ TagProbe \/ TagSkip \/ TagBegin
    \/ TagBatchInvoke \/ ExiftoolWrite \/ ExiftoolExit \/ ExiftoolFail \/ TagReturn
    \/ OpenProject \/ AlignSkip \/ AlignBegin \/ MatchDone \/ AlignDone \/ AlignSave
    \/ SplitStep \/ BuildStep \/ ExportStep \/ EndRun

NextResume == StartRun \/ RunStep \/ EngineFail \/ Kill

SpecResume ==
    InitResume /\ [][NextResume]_vars /\ WF_vars(StartRun) /\ WF_vars(RunStep)

\* the cameras with a transform in the project file
AlignedCameras(p) ==
    UNION { { << n, j >> : j \in { j \in DOMAIN p.chunks[n].cameras :
                                     p.chunks[n].cameras[j].transform } } :
            n \in DOMAIN p.chunks }

\* line 146 on the partitions of the project file, those of lines 119-138 when
\* the file still holds the one aligned chunk
EachPartitionValid(p) ==
    /\ p.chunks # << >>
    /\ IF Len(p.chunks) = 1
       THEN \A n \in 0..(CHUNK_COUNT - 1) :
               ~NoValidCameras([p.chunks[1] EXCEPT
                                  !.cameras = SelectedCameras(p.chunks[1], n)])
       ELSE \A n \in DOMAIN p.chunks : ~NoValidCameras(p.chunks[n])

\* lines 143-273 have nothing left to do and the run is at its end
RunComplete ==
    /\ pc = "done"
    /\ Len(proj.chunks) = CHUNK_COUNT
    /\ \A n \in DOMAIN proj.chunks :
          proj.chunks[n].depth /\ proj.chunks[n].model /\ proj.chunks[n].tex
    /\ glb = TierLabels

\* C20 as stated: once the interruptions are over, a project with at least
\* CHUNK_COUNT aligned cameras leads to a run that ends with depth maps, mesh
\* and texture in every partition and the GLB of every tier written.
C20_ResumeOnAligned ==
    (/\ pc = "idle"
     /\ faults = MaxFaults
     /\ Cardinality(AlignedCameras(proj)) >= CHUNK_COUNT) ~> RunComplete

\* C20, amended: once the interruptions are over, a project in which every
\* partition is enabled and holds an aligned camera leads to a run that ends
\* with depth maps, mesh and texture in every partition and the GLB of every
\* tier written.
C20_ResumeCompletes ==
    (/\ pc = "idle"
     /\ faults = MaxFaults
     /\ EachPartitionValid(proj)) ~> RunComplete

\* a run that resumed after an interruption (it found the alignment done) and
\* built models has ended complete
C20_Witness ==
    /\ RunComplete
    /\ faults = MaxFaults
    /\ "align" \in skips
    /\ "buildModel" \in ops
    /\ EachPartitionValid(proj)

============================================================================
